---- MODULE Spec2Model ----
(***************************************************************************)
(* mongoose-errors-handler: the dispatcher MongooseErrorHandler.handle,    *)
(* its three formatters and the AppError constructor, over a model of the  *)
(* JavaScript values a raw error can carry.                                *)
(*                                                                         *)
(* JavaScript strings are TLA+ strings (\o concatenates them).  The        *)
(* decimal form of a number is built digit by digit as a sequence of       *)
(* one-character strings, so that startsWith can look at its first         *)
(* character; Text turns such a sequence into a string.                    *)
(***************************************************************************)
EXTENDS Integers, Sequences, FiniteSets, TLC

VARIABLES
    impl,       \* which build of index.js is loaded: "instanceof" or "switch"
    pc,         \* "idle", "raised", "returned", "constructed"
    err,        \* the raw error in flight (NoError when idle)
    outcome,    \* what the last call produced: an AppError, the unknown object, a throw
    formatter,  \* the formatter method the dispatcher invoked ("none": fallback branch)
    kept,       \* a raw error object the caller holds on to, with the result it got for it
    again,      \* the call in progress is a second call on the kept raw error
    reqs,       \* the HTTP requests: where each is, its error, and the calls made on its res
    ERROR_TYPES \* the constants object of constants/errorTypes.js, as it is at runtime

vars == <<impl, pc, err, outcome, formatter, kept, again, reqs, ERROR_TYPES>>

-----------------------------------------------------------------------------
(* Bounds of the model *)

MaxEntries == 2       \* largest errors mapping
MaxKeys == 2          \* largest keyValue mapping
MaxStatusCode == 520  \* AppError is constructed with every status code 0..MaxStatusCode
MaxRequests == 2      \* requests in flight at once

-----------------------------------------------------------------------------
(* JavaScript values *)

Undefined == [t |-> "undefined"]
Null == [t |-> "null"]
Str(s) == [t |-> "string", s |-> s]
Num(n) == [t |-> "number", n |-> n]
\* a plain object: its own enumerable properties, in property order
Obj(props) == [t |-> "object", props |-> props]
Prop(k, v) == [k |-> k, v |-> v]

IsNullish(v) == v.t \in {"undefined", "null"}

\* ToBoolean, as applied by !, && and ||
Truthy(v) ==
    CASE v.t = "undefined" -> FALSE
      [] v.t = "null" -> FALSE
      [] v.t = "string" -> v.s # ""
      [] v.t = "number" -> v.n # 0
      [] OTHER -> TRUE

DigitChars == <<"0", "1", "2", "3", "4", "5", "6", "7", "8", "9">>

RECURSIVE NatDigits(_)
NatDigits(n) ==
    IF n < 10 THEN <<DigitChars[n + 1]>>
    ELSE Append(NatDigits(n \div 10), DigitChars[(n % 10) + 1])

\* Number.prototype.toString of an integer: its decimal characters
NumberToString(n) == IF n < 0 THEN <<"-">> \o NatDigits(-n) ELSE NatDigits(n)

RECURSIVE Text(_)
Text(cs) == IF cs = <<>> THEN "" ELSE Head(cs) \o Text(Tail(cs))

\* String.prototype.startsWith with a one-character search string
StartsWith(cs, c) == Len(cs) >= 1 /\ cs[1] = c

\* ToString, as applied by a template literal and by v.toString()
toString(v) ==
    CASE v.t = "undefined" -> "undefined"
      [] v.t = "null" -> "null"
      [] v.t = "string" -> v.s
      [] v.t = "number" -> Text(NumberToString(v.n))
      [] OTHER -> "[object Object]"

\* Object.keys / Object.values: own properties in property order; none for a number
ObjectKeys(v) == IF v.t = "object" THEN [i \in 1..Len(v.props) |-> v.props[i].k] ELSE <<>>
ObjectValues(v) == IF v.t = "object" THEN [i \in 1..Len(v.props) |-> v.props[i].v] ELSE <<>>

\* o[k] for a non-nullish o: the property's value, undefined when o has none
GetProp(o, k) ==
    IF o.t = "object" /\ \E i \in 1..Len(o.props) : o.props[i].k = k
    THEN o.props[CHOOSE i \in 1..Len(o.props) : o.props[i].k = k].v
    ELSE Undefined

\* xs[0]
First(xs) == IF Len(xs) >= 1 THEN Str(xs[1]) ELSE Undefined

\* join called without its separator: the default "," is used
RECURSIVE ArrayJoin_defaultSeparator(_, _)
ArrayJoin_defaultSeparator(xs, sep) ==
    IF xs = <<>> THEN ""
    ELSE LET h == IF IsNullish(Head(xs)) THEN "" ELSE toString(Head(xs))
         IN  IF Len(xs) = 1 THEN h
             ELSE h \o "," \o ArrayJoin_defaultSeparator(Tail(xs), sep)

\* Array.prototype.join: undefined and null elements give the empty string
RECURSIVE ArrayJoin(_, _)
ArrayJoin(xs, sep) ==
    IF xs = <<>> THEN ""
    ELSE LET h == IF IsNullish(Head(xs)) THEN "" ELSE toString(Head(xs))
         IN  IF Len(xs) = 1 THEN h ELSE h \o sep \o ArrayJoin(Tail(xs), sep)

-----------------------------------------------------------------------------
(* constants/errorTypes.js; sequences count from 1, so DUPLICATE_KEY[1] is the *)
(* code (DUPLICATE_KEY[0] in the source) and DUPLICATE_KEY[2] the name         *)

\* the object literal the module builds and exports
ERROR_TYPES_literal ==
    [CAST_ERROR |-> "CastError",
     VALIDATION_ERROR |-> "ValidationError",
     DUPLICATE_KEY |-> <<"11000", "MongoServerError">>]

\* Object.freeze(o): an assignment to a property of o is rejected (a TypeError in
\* module code, which is strict) and o keeps its properties
AssignProperty(o, k, v) == [threw |-> TRUE, object |-> o]

\* o.DUPLICATE_KEY[i] = v: the array is an object of its own, which Object.freeze(o)
\* does not freeze
AssignElement(o, i, v) == [threw |-> FALSE, object |-> [o EXCEPT !.DUPLICATE_KEY[i] = v]]

-----------------------------------------------------------------------------
(* Raw errors *)

\* an error object; isCastError: mongoose.CastError.prototype is on its prototype chain
RawError(c, n, m, cd, es, kv, p, v) ==
    [t |-> "error", isCastError |-> c, name |-> n, message |-> m, code |-> cd,
     errors |-> es, keyValue |-> kv, path |-> p, value |-> v]

\* e.f for a non-nullish raw value e (a thrown string has none of the fields)
Field(e, f) == IF e.t = "error" THEN e[f] ELSE Undefined

\* e instanceof mongoose.CastError
InstanceOfCastError(e) == e.t = "error" /\ e.isCastError

Names ==
    {Undefined, Str("ValidationError"), Str("CastError"), Str("MongoServerError"),
     Str("TypeError")}
Messages == {Undefined, Str(""), Str("boom")}
Codes == {Undefined, Null, Num(11000), Str("11000"), Num(11001), Str("11001"), Num(0)}
Paths == {Undefined, Str("_id")}
Values == {Undefined, Null, Str("abc"), Num(12)}

\* sequences without repetition over S, up to length n
RECURSIVE Arrangements(_, _)
Arrangements(S, n) ==
    IF n = 0 THEN {<<>>}
    ELSE LET shorter == Arrangements(S, n - 1)
         IN  shorter \cup
             {Append(xs, x) : xs \in {ys \in shorter : Len(ys) = n - 1}, x \in S}

DistinctKeys(ps) == \A i, j \in 1..Len(ps) : ps[i].k = ps[j].k => i = j

\* validator failures by field; "name" carries no message, "role" is a null entry
ErrorProps ==
    {Prop("email", Obj(<<Prop("message", Str("Email is required"))>>)),
     Prop("age", Obj(<<Prop("message", Str("Age must be at least 18"))>>)),
     Prop("password", Obj(<<Prop("message", Str("Password is too short"))>>)),
     Prop("name", Obj(<<>>)),
     Prop("role", Null)}

ErrorsValues ==
    {Undefined, Null, Num(7)} \cup
    {Obj(ps) : ps \in {qs \in Arrangements(ErrorProps, MaxEntries) : DistinctKeys(qs)}}

KeyValueProps ==
    {Prop("email", Str("x@y.com")), Prop("email", Str("z@y.com")),
     Prop("username", Str("bob")), Prop("phone", Num(5550100))}

KeyValues ==
    {Undefined, Null, Num(7)} \cup
    {Obj(ps) : ps \in {qs \in Arrangements(KeyValueProps, MaxKeys) : DistinctKeys(qs)}}

\* every name and both instanceof answers, with one category's fields varied at a time
RawErrorObjects ==
    {RawError(c, n, m, cd, es, Undefined, Undefined, Undefined) :
        c \in BOOLEAN, n \in Names, m \in Messages, cd \in {Undefined, Num(11000)},
        es \in ErrorsValues}
    \cup
    {RawError(c, n, m, cd, Undefined, kv, Undefined, Undefined) :
        c \in BOOLEAN, n \in Names, m \in {Undefined, Str("boom")}, cd \in Codes,
        kv \in KeyValues}
    \cup
    {RawError(c, n, m, cd, Undefined, Undefined, p, v) :
        c \in BOOLEAN, n \in Names, m \in {Undefined, Str("boom")},
        cd \in {Undefined, Str("11000")}, p \in Paths, v \in Values}

\* anything can be thrown: undefined, null and a string besides error objects
RawValues == RawErrorObjects \cup {Undefined, Null, Str("oops")}

NoError == [t |-> "none"]
NoOutcome == [kind |-> "none"]

-----------------------------------------------------------------------------
(* appError/errorHandlers.js *)

\* status derived from the range 400..499 instead of the first character
AppError_range(message, statusCode) ==
    [kind |-> "AppError",
     message |-> message,
     status |-> IF statusCode >= 400 /\ statusCode <= 499 THEN "fail" ELSE "error",
     statusCode |-> statusCode,
     isOperational |-> TRUE]

AppError(message, statusCode) ==
    [kind |-> "AppError",
     message |-> message,
     status |-> IF StartsWith(NumberToString(statusCode), "4") THEN "fail" ELSE "error",
     statusCode |-> statusCode,
     isOperational |-> TRUE]

UnknownErrorResult(message) == [kind |-> "object", type |-> "unknown", message |-> message]

Thrown(name) == [kind |-> "throw", error |-> name]

Invoked(f, result) == [formatter |-> f, outcome |-> result]

-----------------------------------------------------------------------------
(* errors/ValidationError.js, errors/CastError.js, errors/DuplicateKeyError.js *)

\* x || fallback for a string-or-absent x
OrElse(x, fallback) == IF Truthy(x) THEN toString(x) ELSE fallback

\* the formatter answering 422 instead of 400
handleValidationError_unprocessable(e) ==
    IF ~Truthy(Field(e, "errors"))
    THEN AppError("Validation error: "
                    \o OrElse(Field(e, "message"), "Unknown validation error"), 422)
    ELSE LET es == ObjectValues(Field(e, "errors"))
         IN  IF \E i \in 1..Len(es) : IsNullish(es[i])
             THEN Thrown("TypeError")
             ELSE AppError("Validation error: "
                             \o ArrayJoin([i \in 1..Len(es) |-> GetProp(es[i], "message")],
                                          ", "), 422)

handleValidationError(e) ==
    IF ~Truthy(Field(e, "errors"))
    THEN AppError("Validation error: "
                    \o OrElse(Field(e, "message"), "Unknown validation error"), 400)
    ELSE LET es == ObjectValues(Field(e, "errors"))
         IN  IF \E i \in 1..Len(es) : IsNullish(es[i])
             THEN Thrown("TypeError")    \* e.message of null
             ELSE AppError("Validation error: "
                             \o ArrayJoin([i \in 1..Len(es) |-> GetProp(es[i], "message")],
                                          ", "), 400)

\* the formatter leaving out a value that is undefined
handleCastError_guarded(e) ==
    IF Field(e, "value") = Undefined
    THEN AppError("Invalid " \o toString(Field(e, "path")), 400)
    ELSE AppError("Invalid " \o toString(Field(e, "path")) \o ": "
                    \o toString(Field(e, "value")), 400)

handleCastError(e) ==
    AppError("Invalid " \o toString(Field(e, "path")) \o ": "
               \o toString(Field(e, "value")), 400)

\* the formatter without its keyValue guard: Object.keys of undefined or null throws
handleDuplicateKeyError_noGuard(e) ==
    IF IsNullish(Field(e, "keyValue")) THEN Thrown("TypeError")
    ELSE LET value == First(ObjectKeys(Field(e, "keyValue")))
         IN  AppError("Duplicate field value: " \o toString(value)
                        \o ". Please use another one!", 400)

\* the formatter quoting the value that was duplicated
handleDuplicateKeyError_disclosesValue(e) ==
    IF ~Truthy(Field(e, "keyValue"))
    THEN AppError("Duplicate field value entered", 400)
    ELSE LET value == First(ObjectKeys(Field(e, "keyValue")))
             vs == ObjectValues(Field(e, "keyValue"))
         IN  AppError("Duplicate field value: " \o toString(value) \o " = "
                        \o (IF Len(vs) >= 1 THEN toString(vs[1]) ELSE "undefined")
                        \o ". Please use another one!", 400)

handleDuplicateKeyError(e) ==
    IF ~Truthy(Field(e, "keyValue"))
    THEN AppError("Duplicate field value entered", 400)
    ELSE LET value == First(ObjectKeys(Field(e, "keyValue")))
         IN  AppError("Duplicate field value: " \o toString(value)
                        \o ". Please use another one!", 400)

\* the handler constructors: the new handler object (this) and the argument as the
\* constructor leaves it; every assignment is to this
\* a constructor that takes message and errors away from its argument
ValidationErrorHandler_movesFields(e) ==
    [this |-> [type |-> ERROR_TYPES.VALIDATION_ERROR,
               message |-> Field(e, "message"),
               errors |-> Field(e, "errors")],
     err |-> IF e.t = "error"
             THEN [e EXCEPT !.message = Undefined, !.errors = Undefined]
             ELSE e]

ValidationErrorHandler(e) ==
    [this |-> [type |-> ERROR_TYPES.VALIDATION_ERROR,
               message |-> Field(e, "message"),
               errors |-> Field(e, "errors")],
     err |-> e]

CastErrorHandler(e) == [this |-> [type |-> ERROR_TYPES.CAST_ERROR], err |-> e]

DuplicateKeyErrorHandler(e) ==
    [this |-> [type |-> ERROR_TYPES.DUPLICATE_KEY[2], keyValue |-> Field(e, "keyValue")],
     err |-> e]

-----------------------------------------------------------------------------
(* index.js *)

\* the code test reduced to err.code being truthy
CodeMatches_anyCode(e) == Truthy(Field(e, "code"))

\* err.code && err.code.toString() === ERROR_TYPES.DUPLICATE_KEY[0]
CodeMatches(e) ==
    /\ Truthy(Field(e, "code"))
    /\ toString(Field(e, "code")) = ERROR_TYPES.DUPLICATE_KEY[1]

\* the fallback built as an operational error with status 500
Fallback_asAppError(e) ==
    Invoked("none", AppError(OrElse(Field(e, "message"), "Something went wrong"), 500))

Fallback(e) ==
    Invoked("none", UnknownErrorResult(OrElse(Field(e, "message"), "Something went wrong")))

\* the if / else-if build with the instanceof test made before the name test
handleInstanceof_castFirst(e) ==
    IF IsNullish(e) THEN Invoked("none", Thrown("TypeError"))
    ELSE IF InstanceOfCastError(e)
    THEN Invoked("handleCastError", handleCastError(e))
    ELSE IF Field(e, "name") = Str(ERROR_TYPES.VALIDATION_ERROR)
    THEN Invoked("handleValidationError", handleValidationError(e))
    ELSE IF Field(e, "name") = Str(ERROR_TYPES.DUPLICATE_KEY[2]) /\ CodeMatches(e)
    THEN Invoked("handleDuplicateKeyError", handleDuplicateKeyError(e))
    ELSE Fallback(e)

\* the if / else-if build
handleInstanceof(e) ==
    IF IsNullish(e) THEN Invoked("none", Thrown("TypeError"))    \* err.name of null
    ELSE IF Field(e, "name") = Str(ERROR_TYPES.VALIDATION_ERROR)
    THEN Invoked("handleValidationError", handleValidationError(e))
    ELSE IF InstanceOfCastError(e)
    THEN Invoked("handleCastError", handleCastError(e))
    ELSE IF Field(e, "name") = Str(ERROR_TYPES.DUPLICATE_KEY[2]) /\ CodeMatches(e)
    THEN Invoked("handleDuplicateKeyError", handleDuplicateKeyError(e))
    ELSE Fallback(e)

\* the switch (err.name) build
handleSwitch(e) ==
    IF IsNullish(e) THEN Invoked("none", Thrown("TypeError"))    \* err.name of null
    ELSE CASE Field(e, "name") = Str(ERROR_TYPES.VALIDATION_ERROR) ->
                Invoked("handleValidationError", handleValidationError(e))
           [] Field(e, "name") = Str(ERROR_TYPES.CAST_ERROR) ->
                Invoked("handleCastError", handleCastError(e))
           [] Field(e, "name") = Str(ERROR_TYPES.DUPLICATE_KEY[2]) ->
                IF CodeMatches(e)
                THEN Invoked("handleDuplicateKeyError", handleDuplicateKeyError(e))
                ELSE Fallback(e)
           [] OTHER -> Fallback(e)

handle(e) == IF impl = "instanceof" THEN handleInstanceof(e) ELSE handleSwitch(e)

\* a handle that writes the message it produced back into the raw error
AfterHandle_writesMessageBack(e) ==
    IF e.t = "error" /\ handle(e).outcome.kind \in {"AppError", "object"}
    THEN [e EXCEPT !.message = Str(handle(e).outcome.message)]
    ELSE e

\* the raw error as a call of handle leaves it: handle and the formatters only read
\* it, and the one constructor that runs is handed it
AfterHandle(e) ==
    LET f == handle(e).formatter
    IN  CASE f = "handleValidationError" -> ValidationErrorHandler(e).err
          [] f = "handleCastError" -> CastErrorHandler(e).err
          [] f = "handleDuplicateKeyError" -> DuplicateKeyErrorHandler(e).err
          [] OTHER -> e

-----------------------------------------------------------------------------
(* middleware.js *)

\* calls made on a response object
StatusCall(code) == [op |-> "status", code |-> code]
JsonCall(body) == [op |-> "json", body |-> body]

\* JSON.stringify leaves out a property whose value is undefined
UnknownBody(h) ==
    IF h.kind = "object"
    THEN [success |-> FALSE, error |-> h.message, type |-> h.type]
    ELSE [success |-> FALSE, error |-> h.message]

\* the middleware putting the type in every body
errorMiddlewareWrites_typed(h) ==
    CASE h.kind = "throw" -> <<>>
      [] h.kind = "AppError" /\ h.statusCode # 0 ->
            <<StatusCall(h.statusCode),
              JsonCall([success |-> FALSE, error |-> h.message, type |-> "known"])>>
      [] OTHER -> <<StatusCall(500), JsonCall(UnknownBody(h))>>

\* errorMiddleware, after handledError = handle(err): the calls it makes on res
errorMiddlewareWrites(h) ==
    CASE h.kind = "throw" -> <<>>
      [] h.kind = "AppError" /\ h.statusCode # 0 ->
            <<StatusCall(h.statusCode),
              JsonCall([success |-> FALSE, error |-> h.message])>>
      [] OTHER -> <<StatusCall(500), JsonCall(UnknownBody(h))>>

\* the wrapper answering 500 whatever handle returned
asyncHandlerWrites_always500(h) ==
    CASE h.kind = "throw" -> <<>>
      [] OTHER -> <<StatusCall(500), JsonCall(UnknownBody(h))>>

\* the catch block of asyncHandler's wrapper, after handledError = handle(err)
asyncHandlerWrites(h) ==
    CASE h.kind = "throw" -> <<>>
      [] h.kind = "AppError" /\ h.statusCode # 0 ->
            <<StatusCall(h.statusCode),
              JsonCall([success |-> FALSE, error |-> h.message])>>
      [] OTHER -> <<StatusCall(500), JsonCall(UnknownBody(h))>>

\* the calls cs, made by who, appended to the log of a response object
Logged(cs, who) == [i \in 1..Len(cs) |-> [by |-> who, call |-> cs[i]]]

Requests == 1..MaxRequests

NoRequest ==
    [pc |-> "idle", err |-> NoError, fnCalls |-> 0, handled |-> NoOutcome,
     res |-> <<>>, next |-> <<>>, promise |-> "none"]

\* a middleware that passes the error on after answering
errorMiddleware_callsNext(rs, r) ==
    LET h == handle(rs[r].err).outcome
    IN  [rs EXCEPT ![r] = [@ EXCEPT !.pc = "responded",
                                     !.handled = h,
                                     !.err = AfterHandle(@),
                                     !.res = @ \o Logged(errorMiddlewareWrites(h),
                                                         "errorMiddleware"),
                                     !.next = Append(@, "errorMiddleware")]]

\* errorMiddleware(err, req, res, next) for request r, whole; next is not used
errorMiddleware(rs, r) ==
    LET h == handle(rs[r].err).outcome
    IN  [rs EXCEPT ![r] = [@ EXCEPT !.pc = "responded",
                                     !.handled = h,
                                     !.err = AfterHandle(@),
                                     !.res = @ \o Logged(errorMiddlewareWrites(h),
                                                         "errorMiddleware")]]

\* the wrapper called for request r: the promise is created, fn is invoked
asyncHandler_try(rs, r) ==
    [rs EXCEPT ![r] = [@ EXCEPT !.pc = "running", !.fnCalls = @ + 1,
                                 !.promise = "pending"]]

\* a wrapper that answers when fn has fulfilled
asyncHandler_fulfilled_sendsOk(rs, r) ==
    [rs EXCEPT ![r] = [@ EXCEPT !.pc = "done", !.promise = "fulfilled",
                                 !.res = @ \o Logged(<<StatusCall(200)>>, "asyncHandler")]]

\* await fn(...) fulfilled: the try block ends and so does the wrapper
asyncHandler_fulfilled(rs, r) ==
    [rs EXCEPT ![r] = [@ EXCEPT !.pc = "done", !.promise = "fulfilled"]]

\* a catch block that runs fn once more
asyncHandler_catch_retries(rs, r) ==
    [rs EXCEPT ![r] = [@ EXCEPT !.pc = "running", !.fnCalls = @ + 1]]

\* a wrapper that keeps the response object in a variable all requests share
asyncHandler_catch_sharedRes(rs, r) ==
    LET h == handle(rs[r].err).outcome
        shared == MaxRequests
        rs1 == [rs EXCEPT ![r] = [@ EXCEPT !.pc = "done",
                                           !.handled = h,
                                           !.err = AfterHandle(@),
                                           !.promise = IF h.kind = "throw"
                                                       THEN "rejected" ELSE "fulfilled"]]
    IN  [rs1 EXCEPT ![shared] = [@ EXCEPT !.res = @ \o Logged(asyncHandlerWrites(h),
                                                               "asyncHandler")]]

\* a catch block that passes the error on after answering
asyncHandler_catch_callsNext(rs, r) ==
    LET h == handle(rs[r].err).outcome
    IN  [rs EXCEPT ![r] = [@ EXCEPT !.pc = "done",
                                     !.handled = h,
                                     !.err = AfterHandle(@),
                                     !.res = @ \o Logged(asyncHandlerWrites(h),
                                                         "asyncHandler"),
                                     !.next = Append(@, "asyncHandler"),
                                     !.promise = IF h.kind = "throw"
                                                 THEN "rejected" ELSE "fulfilled"]]

\* the catch block of the wrapper for request r, whole; when handle throws, the
\* block is left by the exception and the wrapper's promise is rejected
asyncHandler_catch(rs, r) ==
    LET h == handle(rs[r].err).outcome
    IN  [rs EXCEPT ![r] = [@ EXCEPT !.pc = "done",
                                     !.handled = h,
                                     !.err = AfterHandle(@),
                                     !.res = @ \o Logged(asyncHandlerWrites(h),
                                                         "asyncHandler"),
                                     !.promise = IF h.kind = "throw"
                                                 THEN "rejected" ELSE "fulfilled"]]

-----------------------------------------------------------------------------
(* The state machine: the application surfaces a raw error and hands it to  *)
(* MongooseErrorHandler.handle, or constructs an AppError of its own.       *)

StatusCodes == 0..MaxStatusCode \cup {-404, 4000, 4999, 5400, 40000}

NoKept == [err |-> NoError, outcome |-> NoOutcome]

\* calls made between two calls on the kept raw error
Intervening ==
    {Null,
     RawError(FALSE, Str("ValidationError"), Str("boom"), Undefined,
              Obj(<<Prop("email", Obj(<<Prop("message", Str("Email is required"))>>))>>),
              Undefined, Undefined, Undefined),
     RawError(FALSE, Str("MongoServerError"), Undefined, Num(11000), Undefined,
              Obj(<<Prop("email", Str("x@y.com"))>>), Undefined, Undefined)}

Init ==
    /\ impl \in {"instanceof", "switch"}
    /\ pc = "idle"
    /\ err = NoError
    /\ outcome = NoOutcome
    /\ formatter = "none"
    /\ kept = NoKept
    /\ again = FALSE
    /\ reqs = [r \in Requests |-> NoRequest]
    /\ ERROR_TYPES = ERROR_TYPES_literal

\* a data-access operation fails with some raw value
Raise ==
    /\ pc = "idle"
    /\ pc' = "raised"
    /\ \E e \in (IF kept = NoKept THEN RawValues ELSE Intervening) : err' = e
    /\ again' = FALSE
    /\ UNCHANGED <<ERROR_TYPES, impl, outcome, formatter, kept, reqs>>

\* MongooseErrorHandler.handle(err)
Handle ==
    /\ pc = "raised"
    /\ pc' = "returned"
    /\ outcome' = handle(err).outcome
    /\ formatter' = handle(err).formatter
    /\ err' = AfterHandle(err)
    /\ kept' = IF again THEN [kept EXCEPT !.err = AfterHandle(err)] ELSE kept
    /\ UNCHANGED <<ERROR_TYPES, impl, again, reqs>>

\* new AppError(message, statusCode)
Construct ==
    /\ pc = "idle"
    /\ kept = NoKept
    /\ pc' = "constructed"
    /\ \E message \in {"Not found", ""}, statusCode \in StatusCodes :
          outcome' = AppError(message, statusCode)
    /\ UNCHANGED <<ERROR_TYPES, impl, err, formatter, kept, again, reqs>>

\* the caller is done with the result
Reset ==
    /\ pc \in {"returned", "constructed", "assigned"}
    /\ pc' = "idle"
    /\ err' = NoError
    /\ outcome' = NoOutcome
    /\ formatter' = "none"
    /\ again' = FALSE
    /\ UNCHANGED <<ERROR_TYPES, impl, kept, reqs>>

\* the caller holds on to the raw error object and to the result handle gave for it
Keep ==
    /\ pc = "returned"
    /\ kept = NoKept
    /\ kept' = [err |-> err, outcome |-> outcome]
    /\ pc' = "idle"
    /\ err' = NoError
    /\ outcome' = NoOutcome
    /\ formatter' = "none"
    /\ UNCHANGED <<ERROR_TYPES, impl, again, reqs>>

\* the caller hands the kept raw error object to handle once more
RaiseAgain ==
    /\ pc = "idle"
    /\ kept # NoKept
    /\ pc' = "raised"
    /\ err' = kept.err
    /\ again' = TRUE
    /\ UNCHANGED <<ERROR_TYPES, impl, outcome, formatter, kept, reqs>>

Next ==
    \/ Raise
    \/ Handle
    \/ Construct
    \/ Reset

Spec == Init /\ [][Next]_vars

\* handle called repeatedly, the same raw error object coming back
NextRepeat ==
    \/ Raise
    \/ Handle
    \/ Reset
    \/ Keep
    \/ RaiseAgain

SpecRepeat == Init /\ [][NextRepeat]_vars

-----------------------------------------------------------------------------
(* Application code that imports ERROR_TYPES and assigns to it *)

WriteValues == {"x"}

\* ERROR_TYPES.K = v
WriteProperty ==
    /\ pc = "idle"
    /\ kept = NoKept
    /\ pc' = "assigned"
    /\ \E k \in DOMAIN ERROR_TYPES, v \in WriteValues :
          LET w == AssignProperty(ERROR_TYPES, k, v)
          IN  /\ ERROR_TYPES' = w.object
              /\ outcome' = IF w.threw THEN Thrown("TypeError") ELSE NoOutcome
    /\ UNCHANGED <<impl, err, formatter, kept, again, reqs>>

\* ERROR_TYPES.DUPLICATE_KEY[i] = v
WriteElement ==
    /\ pc = "idle"
    /\ kept = NoKept
    /\ pc' = "assigned"
    /\ \E i \in DOMAIN ERROR_TYPES.DUPLICATE_KEY, v \in WriteValues :
          LET w == AssignElement(ERROR_TYPES, i, v)
          IN  /\ ERROR_TYPES' = w.object
              /\ outcome' = IF w.threw THEN Thrown("TypeError") ELSE NoOutcome
    /\ UNCHANGED <<impl, err, formatter, kept, again, reqs>>

\* handle called by an application that also assigns to the constants
NextWrites ==
    \/ WriteProperty
    \/ WriteElement
    \/ Raise
    \/ Handle
    \/ Reset

SpecWrites == Init /\ [][NextWrites]_vars

-----------------------------------------------------------------------------
(* Requests: Express hands an error to errorMiddleware, or calls the wrapper *)
(* asyncHandler(fn) returned; E is the set the raw errors are drawn from.    *)

\* raw errors of the requests that run side by side
ErrorSample ==
    Intervening \cup
    {Str("oops"),
     RawError(TRUE, Str("CastError"), Str("boom"), Undefined, Undefined, Undefined,
              Str("_id"), Str("abc")),
     RawError(FALSE, Str("TypeError"), Str("boom"), Undefined, Undefined, Undefined,
              Undefined, Undefined)}

\* what fn answers: res.json({ success: true, data: user })
FnWrites == <<JsonCall([success |-> TRUE, data |-> "user"])>>

\* Express calls errorMiddleware's route: next(err) or a throw upstream
Route(r, E) ==
    /\ reqs[r].pc = "idle"
    /\ \E e \in E : reqs' = [reqs EXCEPT ![r] = [@ EXCEPT !.pc = "routed", !.err = e]]
    /\ UNCHANGED <<ERROR_TYPES, impl, pc, err, outcome, formatter, kept, again>>

ErrorMiddleware(r) ==
    /\ reqs[r].pc = "routed"
    /\ reqs' = errorMiddleware(reqs, r)
    /\ UNCHANGED <<ERROR_TYPES, impl, pc, err, outcome, formatter, kept, again>>

\* Express calls the wrapper, which calls fn
Invoke(r) ==
    /\ reqs[r].pc = "idle"
    /\ reqs' = asyncHandler_try(reqs, r)
    /\ UNCHANGED <<ERROR_TYPES, impl, pc, err, outcome, formatter, kept, again>>

\* fn answers the request itself
FnRespond(r) ==
    /\ reqs[r].pc = "running"
    /\ reqs[r].res = <<>>
    /\ reqs' = [reqs EXCEPT ![r] = [@ EXCEPT !.res = @ \o Logged(FnWrites, "fn")]]
    /\ UNCHANGED <<ERROR_TYPES, impl, pc, err, outcome, formatter, kept, again>>

\* fn calls the next it was handed
FnNext(r) ==
    /\ reqs[r].pc = "running"
    /\ reqs[r].next = <<>>
    /\ reqs' = [reqs EXCEPT ![r] = [@ EXCEPT !.next = Append(@, "fn")]]
    /\ UNCHANGED <<ERROR_TYPES, impl, pc, err, outcome, formatter, kept, again>>

\* fn's promise is fulfilled
FnResolve(r) ==
    /\ reqs[r].pc = "running"
    /\ reqs' = asyncHandler_fulfilled(reqs, r)
    /\ UNCHANGED <<ERROR_TYPES, impl, pc, err, outcome, formatter, kept, again>>

\* fn throws, or its promise is rejected, with a raw error
FnReject(r, E) ==
    /\ reqs[r].pc = "running"
    /\ \E e \in E : reqs' = [reqs EXCEPT ![r] = [@ EXCEPT !.pc = "rejected", !.err = e]]
    /\ UNCHANGED <<ERROR_TYPES, impl, pc, err, outcome, formatter, kept, again>>

\* the wrapper's catch block runs
Catch(r) ==
    /\ reqs[r].pc = "rejected"
    /\ reqs' = asyncHandler_catch(reqs, r)
    /\ UNCHANGED <<ERROR_TYPES, impl, pc, err, outcome, formatter, kept, again>>

\* one request, any raw error
NextHttp ==
    \/ Route(1, RawValues)
    \/ ErrorMiddleware(1)
    \/ Invoke(1)
    \/ FnRespond(1)
    \/ FnNext(1)
    \/ FnResolve(1)
    \/ FnReject(1, RawValues)
    \/ Catch(1)

SpecHttp == Init /\ [][NextHttp]_vars

\* several wrapped requests in flight, their steps in any order
NextConcurrent ==
    \E r \in Requests :
        \/ Invoke(r)
        \/ FnRespond(r)
        \/ FnResolve(r)
        \/ FnReject(r, ErrorSample)
        \/ Catch(r)

SpecConcurrent == Init /\ [][NextConcurrent]_vars

-----------------------------------------------------------------------------
(* Vocabulary of the claims *)

Returned == pc = "returned"

\* handle(err: Error | MongooseError): the raw value is an error object
IsErrorObject(e) == e.t = "error"

\* an error object whose errors entries, if it has any, are validator failures
\* (objects)
IsRawError(e) ==
    /\ IsErrorObject(e)
    /\ LET es == ObjectValues(e.errors) IN \A i \in 1..Len(es) : es[i].t = "object"

NameIs(e, n) == e.t = "error" /\ e.name = Str(n)

\* "recognized as a cast error", as the loaded build recognizes one
CastRecognized(e) ==
    IF impl = "instanceof" THEN e.t = "error" /\ e.isCastError ELSE NameIs(e, "CastError")

\* the code values whose string form is "11000"
CodeIs11000(e) == e.t = "error" /\ e.code \in {Num(11000), Str("11000")}

Absent(v) == v \in {Undefined, Null}

\* the raw error's message, or the given default when it is absent or empty
MessageOr(e, d) == IF e.message.t = "string" /\ e.message.s # "" THEN e.message.s ELSE d

IsStructured(o) == o.kind = "AppError"
IsUnknown(o) == o.kind = "object" /\ o.type = "unknown"

-----------------------------------------------------------------------------
\* C1: handle never fails with an exception: whatever the raw error value, the
\* call returns a StructuredError or an UnknownErrorResult.
C1_HandleNeverThrows == Returned => IsStructured(outcome) \/ IsUnknown(outcome)

-----------------------------------------------------------------------------
\* the branch the classification order assigns to a raw error
ExpectedBranch(e) ==
    IF NameIs(e, "ValidationError") THEN "handleValidationError"
    ELSE IF CastRecognized(e) THEN "handleCastError"
    ELSE IF NameIs(e, "MongoServerError") /\ CodeIs11000(e) THEN "handleDuplicateKeyError"
    ELSE "none"

\* C2: the checks are made in a fixed order and the first match wins: validation
\* by name, then a recognized cast error, then MongoServerError with code 11000,
\* then the unknown result; every raw error gets the result of exactly that branch.
C2_FirstMatchWins ==
    Returned /\ IsErrorObject(err) =>
        /\ formatter = ExpectedBranch(err)
        /\ formatter = "handleValidationError" => outcome = handleValidationError(err)
        /\ formatter = "handleCastError" => outcome = handleCastError(err)
        /\ formatter = "handleDuplicateKeyError" => outcome = handleDuplicateKeyError(err)
        /\ formatter = "none" <=> IsUnknown(outcome)
        /\ IsRawError(err) => (formatter # "none" <=> IsStructured(outcome))

\* a raw error named ValidationError that is cast-recognized and carries code 11000
\* got the validation result
C2_Witness ==
    /\ Returned /\ IsRawError(err)
    /\ NameIs(err, "ValidationError") /\ CastRecognized(err) /\ CodeIs11000(err)
    /\ formatter = "handleValidationError" /\ IsStructured(outcome)

-----------------------------------------------------------------------------
\* C3 as stated: a raw error named MongoServerError whose code is absent or does
\* not stringify to "11000" gets the unknown result and never the duplicate-key
\* result; code 11000 and code "11000" both select the duplicate-key branch.
C3_OtherCodeIsUnknown ==
    Returned /\ NameIs(err, "MongoServerError") =>
        IF CodeIs11000(err)
        THEN formatter = "handleDuplicateKeyError"
        ELSE /\ formatter # "handleDuplicateKeyError"
             /\ outcome = UnknownErrorResult(MessageOr(err, "Something went wrong"))

\* C3 (amended): the same, for a raw error named MongoServerError that is not
\* recognized as a cast error; a cast-recognized one gets the cast result, and
\* none with another code gets the duplicate-key result.
C3_OtherCodeIsUnknownUnlessCast ==
    Returned /\ NameIs(err, "MongoServerError") =>
        IF CastRecognized(err)
        THEN formatter = "handleCastError"
        ELSE IF CodeIs11000(err)
        THEN formatter = "handleDuplicateKeyError"
        ELSE /\ formatter # "handleDuplicateKeyError"
             /\ outcome = UnknownErrorResult(MessageOr(err, "Something went wrong"))

\* a MongoServerError with code 11001 got the unknown result
C3_Witness ==
    /\ Returned /\ NameIs(err, "MongoServerError") /\ ~CastRecognized(err)
    /\ err.code = Num(11001)
    /\ IsUnknown(outcome)

-----------------------------------------------------------------------------
\* C4 as stated: whenever handle invokes the duplicate-key formatter, the raw
\* error has a keyValue.
C4_DuplicateFormatterHasKeyValue ==
    Returned /\ formatter = "handleDuplicateKeyError" => ~Absent(err.keyValue)

\* C4 (amended): handle invokes the duplicate-key formatter only for a raw error
\* named MongoServerError whose code stringifies to "11000"; its keyValue may be
\* missing, and the formatter then answers "Duplicate field value entered".
C4_DuplicateFormatterOnlyFor11000 ==
    Returned /\ formatter = "handleDuplicateKeyError" =>
        /\ NameIs(err, "MongoServerError")
        /\ CodeIs11000(err)
        /\ Absent(err.keyValue) =>
              /\ IsStructured(outcome)
              /\ outcome.message = "Duplicate field value entered"

\* the duplicate-key formatter was invoked for a raw error without keyValue
C4_Witness ==
    /\ Returned /\ formatter = "handleDuplicateKeyError"
    /\ err.keyValue = Undefined
    /\ IsStructured(outcome)
    /\ outcome.message = "Duplicate field value entered"

-----------------------------------------------------------------------------
\* C5: a raw error that matches none of the three categories gets exactly
\* {type: "unknown", message: m}, m its message or "Something went wrong" when the
\* message is absent or empty, and no statusCode, status or isOperational.
C5_UnknownResult ==
    Returned /\ IsErrorObject(err) /\ ExpectedBranch(err) = "none" =>
        /\ outcome = [kind |-> "object", type |-> "unknown",
                      message |-> MessageOr(err, "Something went wrong")]
        /\ DOMAIN outcome \ {"kind"} = {"type", "message"}

\* a TypeError with a message got the unknown result carrying that message
C5_Witness ==
    /\ Returned /\ NameIs(err, "TypeError") /\ ~CastRecognized(err)
    /\ err.message = Str("boom")
    /\ IsUnknown(outcome) /\ outcome.message = "boom"

-----------------------------------------------------------------------------
\* the errors mapping is non-empty and each entry is a validator failure (an object)
HasValidatorFailures(e) ==
    /\ e.errors.t = "object"
    /\ Len(e.errors.props) >= 1
    /\ \A i \in 1..Len(e.errors.props) : e.errors.props[i].v.t = "object"

\* the i-th entry's message; an entry that carries none contributes no text
EntryMessage(e, i) ==
    LET m == GetProp(e.errors.props[i].v, "message")
    IN  IF m.t = "string" THEN m.s ELSE ""

\* the first n entries' messages, each after the first preceded by ", "
RECURSIVE JoinedMessages(_, _)
JoinedMessages(e, n) ==
    IF n = 1 THEN EntryMessage(e, 1)
    ELSE JoinedMessages(e, n - 1) \o ", " \o EntryMessage(e, n)

\* C6: a ValidationError with a non-empty errors mapping of N entries gets the
\* message "Validation error: " followed by the N entries' messages joined with
\* ", " in the mapping's order, and statusCode 400.
C6_ValidationMessages ==
    Returned /\ NameIs(err, "ValidationError") /\ HasValidatorFailures(err) =>
        /\ IsStructured(outcome)
        /\ outcome.statusCode = 400
        /\ outcome.message =
              "Validation error: " \o JoinedMessages(err, Len(err.errors.props))

\* errors {email: "Email is required", age: "Age must be at least 18"} gave the
\* documented message
C6_Witness ==
    /\ Returned /\ NameIs(err, "ValidationError")
    /\ ObjectKeys(err.errors) = <<"email", "age">>
    /\ IsStructured(outcome)
    /\ outcome.message = "Validation error: Email is required, Age must be at least 18"
    /\ outcome.statusCode = 400

-----------------------------------------------------------------------------
\* C7: a ValidationError whose errors mapping is absent, or present but empty,
\* gets "Validation error: " followed by its message, or by "Unknown validation
\* error" when the message is absent or empty, and statusCode 400.
C7_AbsentOrEmptyErrors ==
    Returned /\ NameIs(err, "ValidationError")
             /\ (Absent(err.errors) \/ err.errors = Obj(<<>>)) =>
        /\ IsStructured(outcome)
        /\ outcome.statusCode = 400
        /\ outcome.message =
              "Validation error: " \o MessageOr(err, "Unknown validation error")

-----------------------------------------------------------------------------
\* the text a path or value contributes to a concatenated message
Rendered(v) ==
    CASE v = Undefined -> "undefined"
      [] v = Null -> "null"
      [] v.t = "string" -> v.s
      [] v = Num(12) -> "12"

\* C8 as stated: every cast-recognized raw error with path p and value v gets
\* exactly "Invalid " + p + ": " + v, with statusCode 400.
C8_CastMessage ==
    Returned /\ IsRawError(err) /\ CastRecognized(err) =>
        /\ IsStructured(outcome)
        /\ outcome.statusCode = 400
        /\ outcome.message = "Invalid " \o Rendered(err.path) \o ": " \o Rendered(err.value)

\* C8 (amended): the same for every cast-recognized raw error whose name is not
\* "ValidationError"; the message has this one form whether or not path and value
\* are present.
C8_CastMessageUnlessValidation ==
    Returned /\ CastRecognized(err) /\ ~NameIs(err, "ValidationError") =>
        /\ IsStructured(outcome)
        /\ outcome.statusCode = 400
        /\ outcome.message = "Invalid " \o Rendered(err.path) \o ": " \o Rendered(err.value)

\* a cast error on path _id with value abc got "Invalid _id: abc"
C8_Witness ==
    /\ Returned /\ CastRecognized(err) /\ ~NameIs(err, "ValidationError")
    /\ err.path = Str("_id") /\ err.value = Str("abc")
    /\ IsStructured(outcome)
    /\ outcome.message = "Invalid _id: abc"

-----------------------------------------------------------------------------
\* C9: a raw error reaching the duplicate-key formatter gets statusCode 400 and,
\* when keyValue is absent, "Duplicate field value entered"; otherwise keyValue has
\* a first key k and the message is "Duplicate field value: k. Please use another
\* one!", however many keys there are.
C9_DuplicateMessage ==
    Returned /\ formatter = "handleDuplicateKeyError"
             /\ (Absent(err.keyValue) \/ err.keyValue.t = "object") =>
        /\ IsStructured(outcome)
        /\ outcome.statusCode = 400
        /\ IF Absent(err.keyValue)
           THEN outcome.message = "Duplicate field value entered"
           ELSE /\ Len(err.keyValue.props) >= 1
                /\ outcome.message =
                      "Duplicate field value: " \o err.keyValue.props[1].k
                        \o ". Please use another one!"

-----------------------------------------------------------------------------
\* the first decimal digit of a natural number
RECURSIVE LeadingDigit(_)
LeadingDigit(n) == IF n < 10 THEN n ELSE LeadingDigit(n \div 10)

\* C10: an AppError's status is "fail" when the decimal form of its statusCode
\* starts with "4" and "error" otherwise; 400, 404 and 499 give "fail", 500 and
\* 503 give "error".
C10_StatusFromFirstDigit ==
    IsStructured(outcome) =>
        /\ outcome.status =
              IF outcome.statusCode >= 0 /\ LeadingDigit(outcome.statusCode) = 4
              THEN "fail" ELSE "error"
        /\ outcome.statusCode \in {400, 404, 499} => outcome.status = "fail"
        /\ outcome.statusCode \in {500, 503} => outcome.status = "error"

\* an AppError was constructed with a four-digit status code starting with 4
C10_Witness ==
    /\ pc = "constructed"
    /\ outcome.statusCode = 4000
    /\ outcome.status = "fail"

-----------------------------------------------------------------------------
\* C11: every StructuredError handle returns, whichever formatter made it, has
\* statusCode 400, status "fail" and isOperational true.
C11_Always400Fail ==
    Returned /\ IsStructured(outcome) =>
        /\ outcome.statusCode = 400
        /\ outcome.status = "fail"
        /\ outcome.isOperational = TRUE

\* the duplicate-key formatter returned a StructuredError
C11_Witness ==
    /\ Returned /\ formatter = "handleDuplicateKeyError"
    /\ IsStructured(outcome) /\ outcome.statusCode = 400

-----------------------------------------------------------------------------
\* C12: a second call of handle on the same raw error, other calls of handle
\* having been made in between or not, gives a result equal to the first in every
\* field (and fails the same way when the first call failed).
C12_SameResultAgain == Returned /\ again => outcome = kept.outcome

\* a kept ValidationError was handled a second time and got its message again
C12_Witness ==
    /\ Returned /\ again
    /\ NameIs(err, "ValidationError") /\ err.message = Str("boom")
    /\ IsStructured(outcome)
    /\ outcome.message = "Validation error: boom"

-----------------------------------------------------------------------------
\* C13: a call of handle leaves every field of the raw error as it was, in every
\* branch.
C13_RawErrorUnchanged == [][pc = "raised" => err' = err]_vars

\* handle returned through the validation formatter, whose handler object took
\* copies of message and errors
C13_Witness ==
    /\ Returned /\ formatter = "handleValidationError"
    /\ err.message = Str("boom") /\ Truthy(err.errors)

-----------------------------------------------------------------------------
\* the calls on a response object that who made, in order
CallsBy(log, who) ==
    LET sel == SelectSeq(log, LAMBDA x : x.by = who)
    IN  [i \in 1..Len(sel) |-> sel[i].call]

\* the request went through the wrapper and fn failed
Failed(q) == q.pc = "done" /\ q.err # NoError

\* the request went through the wrapper and fn succeeded
Succeeded(q) == q.pc = "done" /\ q.err = NoError

\* C14: for a StructuredError errorMiddleware writes status 400 and the body
\* {success: false, error: <message>}; for an UnknownErrorResult it writes status
\* 500 and the body {success: false, error: <message>, type: "unknown"}; the
\* status is 500 exactly when the result is unknown, and success is false in
\* every body.
C14_MiddlewareResponse ==
    \A r \in Requests :
        reqs[r].pc = "responded" /\ reqs[r].handled.kind # "throw" =>
            LET h == reqs[r].handled
                w == CallsBy(reqs[r].res, "errorMiddleware")
            IN  /\ Len(w) = 2 /\ Len(reqs[r].res) = 2
                /\ w[1].op = "status" /\ w[2].op = "json"
                /\ w[2].body.success = FALSE
                /\ IsStructured(h) =>
                      /\ w[1].code = 400
                      /\ w[2].body = [success |-> FALSE, error |-> h.message]
                /\ IsUnknown(h) =>
                      /\ w[1].code = 500
                      /\ w[2].body = [success |-> FALSE, error |-> h.message,
                                      type |-> "unknown"]
                /\ w[1].code = 500 <=> IsUnknown(h)

\* errorMiddleware answered 500 with type "unknown" for an error it does not know
C14_Witness ==
    \E r \in Requests :
        /\ reqs[r].pc = "responded"
        /\ NameIs(reqs[r].err, "TypeError")
        /\ reqs[r].res = Logged(<<StatusCall(500),
                                  JsonCall([success |-> FALSE, error |-> "boom",
                                            type |-> "unknown"])>>, "errorMiddleware")

-----------------------------------------------------------------------------
\* C15: for a StructuredError the body errorMiddleware writes has, besides
\* success and error, the fields status, isOperational and stack.
C15_MiddlewareBodyHasAllFields ==
    \A r \in Requests :
        reqs[r].pc = "responded" /\ IsStructured(reqs[r].handled) =>
            LET w == CallsBy(reqs[r].res, "errorMiddleware")
            IN  /\ Len(w) = 2
                /\ {"success", "error", "status", "isOperational", "stack"}
                      \subseteq DOMAIN w[2].body

-----------------------------------------------------------------------------
\* C16: the wrapper invokes fn exactly once for a request and never again,
\* whether fn succeeds or fails.
C16_FnInvokedOnce ==
    \A r \in Requests :
        /\ reqs[r].fnCalls <= 1
        /\ reqs[r].pc \in {"running", "rejected", "done"} => reqs[r].fnCalls = 1

\* fn failed, the catch block has run, and fn was invoked once
C16_Witness ==
    \E r \in Requests :
        /\ Failed(reqs[r])
        /\ reqs[r].handled # NoOutcome
        /\ reqs[r].fnCalls = 1

-----------------------------------------------------------------------------
\* C17: when fn succeeds the wrapper writes no status and no body, does not call
\* handle, and the response is what fn wrote.
C17_SuccessLeftAlone ==
    \A r \in Requests :
        Succeeded(reqs[r]) =>
            /\ CallsBy(reqs[r].res, "asyncHandler") = <<>>
            /\ reqs[r].handled = NoOutcome
            /\ reqs[r].res \in {<<>>, Logged(FnWrites, "fn")}

\* fn answered the request and succeeded
C17_Witness ==
    \E r \in Requests :
        /\ Succeeded(reqs[r])
        /\ reqs[r].promise = "fulfilled"
        /\ reqs[r].res = Logged(FnWrites, "fn")

-----------------------------------------------------------------------------
\* C18: when fn fails with e, the status and body the wrapper writes are the ones
\* errorMiddleware writes for the same e.
C18_WrapperAnswersAsMiddleware ==
    \A r \in Requests :
        Failed(reqs[r]) =>
            CallsBy(reqs[r].res, "asyncHandler")
                = errorMiddlewareWrites(handle(reqs[r].err).outcome)

\* fn failed with a ValidationError and the wrapper answered 400
C18_Witness ==
    \E r \in Requests :
        /\ Failed(reqs[r])
        /\ NameIs(reqs[r].err, "ValidationError")
        /\ CallsBy(reqs[r].res, "asyncHandler")
              = <<StatusCall(400),
                  JsonCall([success |-> FALSE, error |-> "Validation error: boom"])>>

-----------------------------------------------------------------------------
\* C19: with several wrapped requests in flight, their steps in any order, the
\* wrapper's answer to a failed request is on that request's own response object
\* and is the answer its raw error gets alone; no other request's response
\* object carries a call of the wrapper.
C19_RequestsIndependent ==
    \A r \in Requests :
        /\ CallsBy(reqs[r].res, "asyncHandler")
              = IF Failed(reqs[r])
                THEN asyncHandlerWrites(handle(reqs[r].err).outcome)
                ELSE <<>>
        /\ CallsBy(reqs[r].res, "fn") \in {<<>>, FnWrites}
        /\ Len(reqs[r].res)
              = Len(CallsBy(reqs[r].res, "fn")) + Len(CallsBy(reqs[r].res, "asyncHandler"))

\* one request was answered 400 while another, failed with a different raw
\* error, still waits for its catch block
C19_Witness ==
    \E r1, r2 \in Requests :
        /\ r1 # r2
        /\ Failed(reqs[r1])
        /\ Len(CallsBy(reqs[r1].res, "asyncHandler")) = 2
        /\ CallsBy(reqs[r1].res, "asyncHandler")[1] = StatusCall(400)
        /\ reqs[r2].pc = "rejected"
        /\ reqs[r2].err = Str("oops")
        /\ reqs[r2].res = Logged(FnWrites, "fn")

-----------------------------------------------------------------------------
\* the json calls on a response object
JsonCalls(log) == SelectSeq(log, LAMBDA x : x.call.op = "json")

\* C23: when fn fails the wrapper answers in its catch block, a status and a
\* JSON body, and does not call next; next is never called by the wrapper, after
\* success or after failure.
C23_WrapperNeverCallsNext ==
    \A r \in Requests :
        /\ \A i \in DOMAIN reqs[r].next : reqs[r].next[i] # "asyncHandler"
        /\ Failed(reqs[r]) /\ reqs[r].handled.kind # "throw" =>
              LET w == CallsBy(reqs[r].res, "asyncHandler")
              IN  Len(w) = 2 /\ w[2].op = "json"

\* fn called next and then failed; the wrapper answered and the only call of
\* next is fn's
C23_Witness ==
    \E r \in Requests :
        /\ Failed(reqs[r])
        /\ Len(CallsBy(reqs[r].res, "asyncHandler")) = 2
        /\ reqs[r].next = <<"fn">>

-----------------------------------------------------------------------------
\* C24: a call of errorMiddleware for which handle returns makes exactly two
\* calls on res, the status first and one JSON body second, and no call of next.
C24_MiddlewareWritesOnce ==
    \A r \in Requests :
        reqs[r].pc = "responded" /\ reqs[r].handled.kind # "throw" =>
            /\ Len(reqs[r].res) = 2
            /\ reqs[r].res[1].by = "errorMiddleware" /\ reqs[r].res[1].call.op = "status"
            /\ reqs[r].res[2].by = "errorMiddleware" /\ reqs[r].res[2].call.op = "json"
            /\ Len(JsonCalls(reqs[r].res)) = 1
            /\ reqs[r].next = <<>>

\* errorMiddleware answered a duplicate-key error: status 400, then the body
C24_Witness ==
    \E r \in Requests :
        /\ reqs[r].pc = "responded"
        /\ NameIs(reqs[r].err, "MongoServerError")
        /\ Len(reqs[r].res) = 2
        /\ reqs[r].res[1].call = StatusCall(400)
        /\ reqs[r].res[2].call.op = "json"
        /\ reqs[r].next = <<>>

-----------------------------------------------------------------------------
\* C25: a request handled through the wrapper gets at most one JSON body on its
\* response object, fn's and the wrapper's counted together, also when fn has
\* answered and then fails.
C25_AtMostOneBody ==
    \A r \in Requests : Len(JsonCalls(reqs[r].res)) <= 1

-----------------------------------------------------------------------------
\* C26: whatever value fn fails with, null, undefined and non-objects included,
\* the wrapper writes an error response and its promise is fulfilled, not
\* rejected.
C26_FailureAlwaysAnswered ==
    \A r \in Requests :
        /\ reqs[r].promise # "rejected"
        /\ Failed(reqs[r]) =>
              /\ reqs[r].promise = "fulfilled"
              /\ Len(CallsBy(reqs[r].res, "asyncHandler")) = 2

-----------------------------------------------------------------------------
\* C20: an AppError's status is "fail" exactly when its statusCode is in the
\* range 400-499, and "error" otherwise.
C20_FailExactly400To499 ==
    IsStructured(outcome) =>
        outcome.status =
            IF 400 <= outcome.statusCode /\ outcome.statusCode <= 499
            THEN "fail" ELSE "error"

-----------------------------------------------------------------------------
\* C21: a raw error goes to the cast formatter only if it is an instance of
\* mongoose.CastError; one that is only named "CastError" never gets the
\* "Invalid <path>: <value>" result.
C21_CastFormatterOnlyForInstances ==
    Returned /\ IsErrorObject(err) /\ formatter = "handleCastError" =>
        InstanceOfCastError(err)

-----------------------------------------------------------------------------
\* C22: whatever assignments to ERROR_TYPES, to its entries or to the elements
\* of the DUPLICATE_KEY pair have been attempted, the values the dispatcher
\* compares against are "CastError", "ValidationError", "11000" and
\* "MongoServerError".
C22_ErrorTypesNeverChange ==
    /\ ERROR_TYPES.CAST_ERROR = "CastError"
    /\ ERROR_TYPES.VALIDATION_ERROR = "ValidationError"
    /\ ERROR_TYPES.DUPLICATE_KEY = <<"11000", "MongoServerError">>

-----------------------------------------------------------------------------
\* keyValue mappings with the same keys in the same order and other values
SameKeysOtherValues(kv1, kv2) ==
    /\ kv1.t = "object" /\ kv2.t = "object"
    /\ ObjectKeys(kv1) = ObjectKeys(kv2)
    /\ kv1 # kv2

\* C27: two duplicate-key raw errors that differ only in the values of their
\* keyValue mappings (same keys, same order) get identical results from handle
\* and identical responses from errorMiddleware.
C27_ValueNotDisclosed ==
    \A r \in Requests :
        reqs[r].pc = "responded"
          /\ handle(reqs[r].err).formatter = "handleDuplicateKeyError" =>
            \A kv2 \in KeyValues :
                SameKeysOtherValues(reqs[r].err.keyValue, kv2) =>
                    LET e2 == [reqs[r].err EXCEPT !.keyValue = kv2]
                        h2 == handle(e2).outcome
                    IN  /\ h2 = reqs[r].handled
                        /\ Logged(errorMiddlewareWrites(h2), "errorMiddleware")
                              = reqs[r].res

\* errorMiddleware answered a duplicate-key error on email: x@y.com; the model
\* has the same error with z@y.com
C27_Witness ==
    \E r \in Requests :
        /\ reqs[r].pc = "responded"
        /\ handle(reqs[r].err).formatter = "handleDuplicateKeyError"
        /\ reqs[r].err.keyValue = Obj(<<Prop("email", Str("x@y.com"))>>)
        /\ SameKeysOtherValues(reqs[r].err.keyValue, Obj(<<Prop("email", Str("z@y.com"))>>))
        /\ Obj(<<Prop("email", Str("z@y.com"))>>) \in KeyValues
        /\ reqs[r].res[2].call.body.error
              = "Duplicate field value: email. Please use another one!"

-----------------------------------------------------------------------------
\* C28: for a keyValue mapping that is present, the empty one included, the
\* duplicate-key message names no field that is not a key of the mapping: a
\* message "Duplicate field value: <k>. Please use another one!" has a key of
\* keyValue for <k>.
C28_MessageNamesRealKey ==
    Returned /\ formatter = "handleDuplicateKeyError" /\ err.keyValue.t = "object" =>
        /\ IsStructured(outcome)
        /\ \/ outcome.message = "Duplicate field value entered"
           \/ \E i \in 1..Len(err.keyValue.props) :
                 outcome.message = "Duplicate field value: " \o err.keyValue.props[i].k
                                     \o ". Please use another one!"

====
